---- MODULE Spec2Model ----
(***************************************************************************)
(* Model of the relay orchestration core of rtspSERVER:                    *)
(*   src/src/services/StreamManager.ts    (process supervisor, allocator)  *)
(*   src/src/services/WebSocketService.ts (status broadcaster)             *)
(*   src/unnamed/part_004                 (schema of output_streams)       *)
(*                                                                         *)
(* Node runs every handler to its next `await` without interruption, so    *)
(* one action is the code of a handler between two suspension points.  A   *)
(* database statement takes effect in the action that resumes the handler  *)
(* that awaited it.                                                        *)
(***************************************************************************)
EXTENDS Integers, Sequences, FiniteSets, TLC

\* ---------------------------------------------------------------- bounds
NumJobs  == 2      \* rows of output_streams, ids 1..NumJobs
MaxReqs  == 2      \* HTTP requests that can be in flight at once
MaxProcs == 3      \* child processes spawned in one run
MaxCalls == 4      \* start/stop calls made in one run
MaxGrid  == 3      \* layout templates of up to MaxGrid x MaxGrid cells
MaxSlot  == 4      \* slot positions up to MaxSlot are asked for
NumInputs == 2     \* rows of input_streams
NumSocks == 2      \* WebSocket connections made in one run
MaxHttp  == 2      \* HTTP requests made to the routes in one run
MaxRows  == 1      \* rows of stream_mappings of one output stream
MaxApiSlot == 1   \* slot positions 0..MaxApiSlot are asked for through the routes
MaxTicks == 2      \* firings of the monitoring interval in one run
MaxUsers == 3      \* rows of users, ids 1..MaxUsers

\* ------------------------------------------------------ program constants
BasePort  == 8554
PortRange == 1000

Jobs      == 1..NumJobs
UnknownId == NumJobs + 1          \* an id with no row in output_streams
JobIds    == Jobs \cup {UnknownId}
Reqs      == 1..MaxReqs
NoProc    == 0                    \* Map.get(id) === undefined
NullPort  == 0                    \* output_port IS NULL
NoPort    == 0                    \* getNextAvailablePort threw

ErrNone       == "null"
ErrNotFound   == "Output stream not found"
ErrNoMappings == "No input streams mapped to this output"
ErrNoPorts    == "No available ports for output stream"
ErrSpawn      == "spawn failed"
ErrDupKey     == "duplicate key value violates unique constraint"

\* child_process.spawn: "ok" a running child; "throw" a synchronous exception
\* (bad argument, an errno spawn does not defer); "enoent" a ChildProcess whose
\* failure (ENOENT, EACCES, EAGAIN, ...) is reported later by its 'error' event
SpawnOutcomes == {"ok", "throw", "enoent"}

VARIABLES
    dbStatus,       \* output_streams.status
    dbPort,         \* output_streams.output_port (NullPort = NULL)
    dbUrl,          \* output_streams.output_url  (<<>> = NULL)
    dbLastError,    \* output_streams.last_error
    dbMappings,     \* number of stream_mappings rows of each output stream
    activeStreams,  \* StreamManager.activeStreams : id -> process (NoProc = absent)
    procs,          \* the ChildProcess objects: pid -> [job, port, st]; a pid is used once
    req,            \* the start/stop calls in flight
    calls,          \* start/stop calls made so far
    crashed,        \* the server process died of an uncaught exception
    wsLast,         \* the last message handed to WebSocketService.broadcast
    pipeline,       \* an OutputStreamConfig and the ffmpeg command built from it
    watch,          \* history: a stop was requested while start call r had not spawned
    users,          \* the users table: id -> [role, active] (NoUser = no row)
    catalog,        \* the ids of the input_streams, output_streams and stream_mappings rows
    sock,           \* the WebSocket connections: their handler's position and their peer
    clients,        \* WebSocketService.clients, in insertion order
    monitor,        \* the setInterval of startStreamMonitoring and its callbacks
    http,           \* the HTTP requests: their route, their caller, their answer
    server          \* the server process: its database pool, its exit code once shut down

vars == <<dbStatus, dbPort, dbUrl, dbLastError, dbMappings,
          activeStreams, procs, req, calls, crashed, wsLast, pipeline,
          watch, users, catalog, sock, clients, monitor, http, server>>

\* the tables and the connections of the HTTP and WebSocket front, and the
\* process they live in
frontVars == <<users, catalog, sock, clients, monitor, http, server>>

\* the variables that the supervisor's own steps never touch
otherVars == <<pipeline, watch, frontVars>>

dbVars == <<dbStatus, dbPort, dbUrl, dbLastError, dbMappings>>

\* a call of startOutputStream / stopOutputStream: its position (pc) and its
\* locals: config.outputPort (port), ffmpegProcess (pid), error (err)
IdleReq == [op |-> "none", job |-> 0, pc |-> "idle", port |-> NullPort,
            pid |-> NoProc, err |-> ErrNone, res |-> "none"]

\* a call that has returned: what the caller got (resolved or rejected)
Done(op, j, res, msg) ==
    [IdleReq EXCEPT !.op = op, !.job = j, !.pc = "done", !.res = res, !.err = msg]

NoRegistry == [j \in Jobs |-> NoProc]

\* no configuration is being turned into a command line
NoPipeline == [phase |-> "none"]

\* no start call has seen a stop of its job arrive
Unwatched == [r \in Reqs |-> FALSE]

Uids == 1..MaxUsers
Roles == {"admin", "manager", "viewer"}
NoUser == [role |-> "none", active |-> FALSE]
UserRow(role, active) == [role |-> role, active |-> active]

InputIds == 1..NumInputs
\* running: the output streams the start route has started and neither the
\* stop nor the delete route has stopped since
EmptyCatalog == [inputs |-> {}, outputs |-> {}, mappings |-> {}, running |-> {}]

Hids == 1..MaxHttp
\* a request not made yet: caller is the user the token was signed for (0 = no
\* token), id the :id or outputStreamId, input the inputStreamId, slot the
\* slotPosition, role and isActive the body fields of the users routes, code
\* the HTTP status
NoHttp == [pc |-> "none", route |-> "none", caller |-> 0, id |-> 0, input |-> 0,
           slot |-> 0,
           role |-> "unset", isActive |-> "unset", code |-> 0]

Socks == 1..NumSocks
Ticks == 1..MaxTicks
NoMessage == [type |-> "none"]
\* a connection not made yet; count is the number of messages given to
\* ws.send, got is the last message that reached the peer
NoSock == [pc |-> "none", ready |-> "none", uid |-> 0, link |-> "ok",
           count |-> 0, got |-> NoMessage]
NoTick == [pc |-> "none", inputStreams |-> {}]

\* the process is running (it has no exit code) with its connection pool open
NoExit == -1
ServerUp == [db |-> "open", exit |-> NoExit]

\* no table row, no connection, the monitoring interval not running
FrontIdle ==
    /\ users = [u \in Uids |-> NoUser]
    /\ catalog = EmptyCatalog
    /\ sock = [s \in Socks |-> NoSock]
    /\ clients = <<>>
    /\ monitor = [armed |-> FALSE, tick |-> [t \in Ticks |-> NoTick]]
    /\ http = [h \in Hids |-> NoHttp]
    /\ server = ServerUp

Pids == 1..MaxProcs
NoChild == [job |-> 0, port |-> NullPort, st |-> "none"]
\* a child that has exited and whose 'close' handler has run
ClosedChild == [job |-> 0, port |-> NullPort, st |-> "closed"]
FreePids == {p \in Pids : procs[p].st = "none"}
NewPid == CHOOSE p \in FreePids : \A q \in FreePids : p <= q

OutputUrl(port, j) == <<"rtsp://localhost", port, j>>

\* the rows as the CRUD routes create them: status 'stopped', no port, no URL;
\* output stream 1 has a mapping, the others may have none
Init ==
    /\ dbStatus = [j \in Jobs |-> "stopped"]
    /\ dbPort = [j \in Jobs |-> NullPort]
    /\ dbUrl = [j \in Jobs |-> <<>>]
    /\ dbLastError = [j \in Jobs |-> ErrNone]
    /\ dbMappings \in {m \in [Jobs -> 0..MaxRows] : m[1] >= 1}
    /\ activeStreams = NoRegistry
    /\ procs = [p \in Pids |-> NoChild]
    /\ req = [r \in Reqs |-> IdleReq]
    /\ calls = 0
    /\ crashed = FALSE
    /\ wsLast = [type |-> "none"]
    /\ pipeline = NoPipeline
    /\ watch = Unwatched
    /\ FrontIdle

\* ------------------------------------------------------------ allocator
NumActive == Cardinality({j \in Jobs : activeStreams[j] # NoProc})

\* Array.from(values()).map((_, id) => basePort + id): id is the array index
\* mutant of usedPorts: the list of used ports is left empty
usedPorts_Empty == {}

usedPorts == {BasePort + id : id \in 0..(NumActive - 1)}

RECURSIVE ScanPorts(_)
ScanPorts(i) ==
    IF i >= PortRange THEN NoPort
    ELSE IF (BasePort + i) \notin usedPorts THEN BasePort + i
    ELSE ScanPorts(i + 1)

getNextAvailablePort == ScanPorts(0)

\* ----------------------------------------------------------- supervisor
\* this.activeStreams.has(id) / get(id) !== undefined
has(j) == j \in Jobs /\ activeStreams[j] # NoProc

\* getActiveStreams(): Array.from(this.activeStreams.keys())
getActiveStreams == {j \in Jobs : activeStreams[j] # NoProc}

SetReq(r, rec) == req' = [req EXCEPT ![r] = rec]

Fail(r, msg) ==
    SetReq(r, [req[r] EXCEPT !.pc = "updateError", !.err = msg])

\* process.kill('SIGTERM'); this.activeStreams.delete(id)
KillAndDelete(j) ==
    /\ procs' = [procs EXCEPT ![activeStreams[j]].st = "signalled"]
    /\ activeStreams' = [activeStreams EXCEPT ![j] = NoProc]

\* spawn returned a ChildProcess that could not be launched: no 'error'
\* listener is registered, so its 'error' event is an uncaught exception and
\* the server process ends with its registry and its calls in flight
Crash(j, port) ==
    /\ crashed' = TRUE
    /\ procs' = [procs EXCEPT ![NewPid] = [job |-> j, port |-> port, st |-> "failed"]]
    /\ activeStreams' = NoRegistry
    /\ req' = [r \in Reqs |-> IdleReq]

\* buildFFmpegProcess + activeStreams.set, up to the await of the UPDATE
buildFFmpegProcess(r, port, outcome) ==
    LET j == req[r].job IN
    /\ FreePids # {}
    /\ CASE outcome = "ok" ->
              /\ procs' = [procs EXCEPT ![NewPid] = [job |-> j, port |-> port, st |-> "live"]]
              /\ activeStreams' = [activeStreams EXCEPT ![j] = NewPid]
              /\ SetReq(r, [req[r] EXCEPT !.pc = "updateRunning", !.port = port,
                                          !.pid = NewPid])
              /\ UNCHANGED crashed
         [] outcome = "throw" ->
              /\ Fail(r, ErrSpawn)
              /\ UNCHANGED <<procs, activeStreams, crashed>>
         [] outcome = "enoent" ->
              Crash(j, port)

\* mutant of StopExisting: the start is rejected, the tracked process kept
StopExisting_Reject(r, port) ==
    /\ SetReq(r, Done("start", req[r].job, "error", "already running"))
    /\ UNCHANGED <<procs, activeStreams, crashed>>

\* "Stop existing stream if running": the synchronous part of the nested
\* stopOutputStream, up to the await of its UPDATE
StopExisting(r, port) ==
    /\ KillAndDelete(req[r].job)
    /\ SetReq(r, [req[r] EXCEPT !.pc = "awaitStop", !.port = port])
    /\ UNCHANGED crashed

\* startOutputStream up to the answer of the first SELECT (the call itself
\* touches no shared state before that answer)
StartCall(r, j) ==
    /\ ~crashed
    /\ req[r].pc \in {"idle", "done"}
    /\ calls < MaxCalls
    /\ calls' = calls + 1
    /\ IF j \notin Jobs
         \* no row: 'Output stream not found' is thrown, the UPDATE of the
         \* catch block changes no row, and the error is rethrown
         THEN SetReq(r, Done("start", j, "error", ErrNotFound))
         ELSE SetReq(r, [IdleReq EXCEPT !.op = "start", !.job = j,
                                        !.pc = "selectMappings", !.port = dbPort[j]])
    /\ UNCHANGED <<dbVars, activeStreams, procs, crashed, wsLast>>

\* mutant of StartRequest: the UPDATE of the catch block has no WHERE clause
StartRequest_NoWhere(r, j) ==
    /\ ~crashed
    /\ req[r].pc \in {"idle", "done"}
    /\ calls < MaxCalls
    /\ calls' = calls + 1
    /\ IF j \notin Jobs
         THEN /\ SetReq(r, Done("start", j, "error", ErrNotFound))
              /\ dbStatus' = [k \in Jobs |-> "error"]
              /\ dbLastError' = [k \in Jobs |-> ErrNotFound]
              /\ UNCHANGED <<dbPort, dbUrl, dbMappings>>
         ELSE /\ SetReq(r, [IdleReq EXCEPT !.op = "start", !.job = j,
                                           !.pc = "selectMappings", !.port = dbPort[j]])
              /\ UNCHANGED dbVars
    /\ UNCHANGED <<activeStreams, procs, crashed, wsLast>>
    /\ UNCHANGED otherVars

\* a call of startOutputStream
StartRequest(r, j) ==
    /\ StartCall(r, j)
    /\ UNCHANGED otherVars

\* mutant of StartSelectMappings: the rows of the second SELECT are not counted
StartSelectMappings_Uncounted(r, outcome) ==
    LET j == req[r].job
        port == IF req[r].port # NullPort THEN req[r].port
                ELSE getNextAvailablePort
    IN
    /\ ~crashed
    /\ req[r].op = "start" /\ req[r].pc = "selectMappings"
    /\ IF port = NoPort
         THEN /\ Fail(r, ErrNoPorts)
              /\ UNCHANGED <<activeStreams, procs, crashed>>
       ELSE IF has(j)
         THEN StopExisting(r, port)
       ELSE buildFFmpegProcess(r, port, outcome)
    /\ UNCHANGED <<dbVars, wsLast, calls>>
    /\ UNCHANGED otherVars

\* startOutputStream from the answer of the second SELECT to its next await
StartSelectMappings(r, outcome) ==
    LET j == req[r].job
        port == IF req[r].port # NullPort THEN req[r].port
                ELSE getNextAvailablePort
    IN
    /\ ~crashed
    /\ req[r].op = "start" /\ req[r].pc = "selectMappings"
    /\ IF dbMappings[j] = 0
         THEN /\ Fail(r, ErrNoMappings)
              /\ UNCHANGED <<activeStreams, procs, crashed>>
       ELSE IF port = NoPort
         THEN /\ Fail(r, ErrNoPorts)
              /\ UNCHANGED <<activeStreams, procs, crashed>>
       ELSE IF has(j)
         THEN StopExisting(r, port)
       ELSE buildFFmpegProcess(r, port, outcome)
    /\ UNCHANGED <<dbVars, wsLast, calls>>
    /\ UNCHANGED otherVars

StartAfterStop(r, outcome) ==
    LET j == req[r].job IN
    /\ ~crashed
    /\ req[r].op = "start" /\ req[r].pc = "awaitStop"
    /\ dbStatus' = [dbStatus EXCEPT ![j] = "stopped"]
    /\ buildFFmpegProcess(r, req[r].port, outcome)
    /\ UNCHANGED <<dbPort, dbUrl, dbLastError, dbMappings, wsLast, calls>>
    /\ UNCHANGED otherVars

\* mutant of StartUpdateRunning: the UPDATE also sets last_error = NULL
StartUpdateRunning_ClearsError(r) ==
    LET j == req[r].job
        port == req[r].port
    IN
    /\ ~crashed
    /\ req[r].op = "start" /\ req[r].pc = "updateRunning"
    /\ IF \E k \in Jobs \ {j} : dbPort[k] = port
         THEN /\ Fail(r, ErrDupKey)
              /\ UNCHANGED <<dbStatus, dbPort, dbUrl>>
         ELSE /\ dbStatus' = [dbStatus EXCEPT ![j] = "running"]
              /\ dbPort' = [dbPort EXCEPT ![j] = port]
              /\ dbUrl' = [dbUrl EXCEPT ![j] = OutputUrl(port, j)]
              /\ SetReq(r, Done("start", j, "ok", ErrNone))
    /\ dbLastError' = [dbLastError EXCEPT ![j] =
                          IF req'[r].res = "ok" THEN ErrNone ELSE @]
    /\ UNCHANGED <<dbMappings, activeStreams, procs, crashed, wsLast, calls>>
    /\ UNCHANGED otherVars

StartUpdateRunning(r) ==
    LET j == req[r].job
        port == req[r].port
    IN
    /\ ~crashed
    /\ req[r].op = "start" /\ req[r].pc = "updateRunning"
    /\ IF \E k \in Jobs \ {j} : dbPort[k] = port
         THEN /\ Fail(r, ErrDupKey)
              /\ UNCHANGED <<dbStatus, dbPort, dbUrl>>
         ELSE /\ dbStatus' = [dbStatus EXCEPT ![j] = "running"]
              /\ dbPort' = [dbPort EXCEPT ![j] = port]
              /\ dbUrl' = [dbUrl EXCEPT ![j] = OutputUrl(port, j)]
              /\ SetReq(r, Done("start", j, "ok", ErrNone))
    /\ UNCHANGED <<dbLastError, dbMappings, activeStreams, procs, crashed, wsLast, calls>>
    /\ UNCHANGED otherVars

StartUpdateError(r) ==
    LET j == req[r].job IN
    /\ ~crashed
    /\ req[r].op = "start" /\ req[r].pc = "updateError"
    /\ dbStatus' = [dbStatus EXCEPT ![j] = "error"]
    /\ dbLastError' = [dbLastError EXCEPT ![j] = req[r].err]
    /\ SetReq(r, Done("start", j, "error", req[r].err))
    /\ UNCHANGED <<dbPort, dbUrl, dbMappings, activeStreams, procs, crashed, wsLast, calls>>
    /\ UNCHANGED otherVars

\* stopOutputStream up to the await of its UPDATE
StopCall(r, j) ==
    /\ ~crashed
    /\ req[r].pc \in {"idle", "done"}
    /\ calls < MaxCalls
    /\ calls' = calls + 1
    /\ IF has(j)
         THEN /\ KillAndDelete(j)
              /\ SetReq(r, [IdleReq EXCEPT !.op = "stop", !.job = j,
                                           !.pc = "updateStopped"])
         ELSE /\ SetReq(r, Done("stop", j, "ok", ErrNone))
              /\ UNCHANGED <<activeStreams, procs>>
    /\ UNCHANGED <<dbVars, crashed, wsLast>>

\* mutant of StopRequest: the `if (process)` guard covers only the signal
StopRequest_Unguarded(r, j) ==
    /\ ~crashed
    /\ req[r].pc \in {"idle", "done"}
    /\ calls < MaxCalls
    /\ calls' = calls + 1
    /\ IF has(j)
         THEN KillAndDelete(j)
         ELSE UNCHANGED <<activeStreams, procs>>
    /\ SetReq(r, [IdleReq EXCEPT !.op = "stop", !.job = j, !.pc = "updateStopped"])
    /\ UNCHANGED <<dbVars, crashed, wsLast>>
    /\ UNCHANGED otherVars

\* a call of stopOutputStream
StopRequest(r, j) ==
    /\ StopCall(r, j)
    /\ UNCHANGED otherVars

StopUpdateStopped(r) ==
    LET j == req[r].job IN
    /\ ~crashed
    /\ req[r].op = "stop" /\ req[r].pc = "updateStopped"
    /\ dbStatus' = [dbStatus EXCEPT ![j] = "stopped"]
    /\ SetReq(r, Done("stop", j, "ok", ErrNone))
    /\ UNCHANGED <<dbPort, dbUrl, dbLastError, dbMappings, activeStreams, procs,
                   crashed, wsLast, calls>>
    /\ UNCHANGED otherVars

\* mutant of OnClose: the handler launches the job again on the same port
OnClose_Respawn(p) ==
    LET j == procs[p].job IN
    /\ IF FreePids # {}
         THEN /\ procs' = [procs EXCEPT ![p] = ClosedChild,
                                        ![NewPid] = [job |-> j, port |-> procs[p].port,
                                                     st |-> "live"]]
              /\ activeStreams' = [activeStreams EXCEPT ![j] = NewPid]
         ELSE /\ procs' = [procs EXCEPT ![p] = ClosedChild]
              /\ activeStreams' = [activeStreams EXCEPT ![j] = NoProc]
    /\ UNCHANGED <<dbVars, req, crashed, wsLast, calls>>
    /\ UNCHANGED otherVars

\* process.on('close'): the handler deletes the entry of config.id
OnClose(p) ==
    /\ procs' = [procs EXCEPT ![p] = ClosedChild]
    /\ activeStreams' = [activeStreams EXCEPT ![procs[p].job] = NoProc]
    /\ UNCHANGED <<dbVars, req, crashed, wsLast, calls>>
    /\ UNCHANGED otherVars

\* the external process ends on its own
ProcessExit(p) ==
    /\ ~crashed
    /\ procs[p].st = "live"
    /\ OnClose(p)

\* the external process ends after SIGTERM
ProcessTerminated(p) ==
    /\ ~crashed
    /\ procs[p].st = "signalled"
    /\ OnClose(p)

\* ---------------------------------------------------------- broadcaster
\* WebSocketService.broadcast(message): the message goes to every OPEN client
broadcast(message) == wsLast' = message

\* the setInterval callback of startStreamMonitoring: a snapshot message
MonitorTick ==
    /\ ~crashed
    /\ broadcast([type |-> "stream_status"])
    /\ UNCHANGED <<dbVars, activeStreams, procs, req, calls, crashed>>
    /\ UNCHANGED otherVars

\* notifyStreamEvent(eventType, 'output', streamId, data); StreamManager
\* never calls it
notifyStreamEvent(eventType, streamId) ==
    broadcast([type |-> "stream_event", eventType |-> eventType,
               streamId |-> streamId])

Next ==
    \/ \E r \in Reqs, j \in JobIds : StartRequest(r, j)
    \/ \E r \in Reqs, o \in SpawnOutcomes : StartSelectMappings(r, o)
    \/ \E r \in Reqs, o \in SpawnOutcomes : StartAfterStop(r, o)
    \/ \E r \in Reqs : StartUpdateRunning(r)
    \/ \E r \in Reqs : StartUpdateError(r)
    \/ \E r \in Reqs, j \in JobIds : StopRequest(r, j)
    \/ \E r \in Reqs : StopUpdateStopped(r)
    \/ \E p \in Pids : ProcessExit(p)
    \/ \E p \in Pids : ProcessTerminated(p)
    \/ MonitorTick

Spec == Init /\ [][Next]_vars

\* ------------------------------------------------- mappings of running jobs
\* POST /streams/mappings for output stream j: the INSERT adds a row; the
\* handler makes no call to StreamManager
MappingCreated(j) ==
    /\ ~crashed
    /\ dbMappings[j] < MaxRows
    /\ dbMappings' = [dbMappings EXCEPT ![j] = @ + 1]
    /\ UNCHANGED <<dbStatus, dbPort, dbUrl, dbLastError, activeStreams, procs,
                   req, calls, crashed, wsLast>>
    /\ UNCHANGED otherVars

\* mutant of MappingDeleted: the handler stops the output stream of the row
MappingDeleted_StopsJob(j) ==
    /\ ~crashed
    /\ dbMappings[j] > 0
    /\ dbMappings' = [dbMappings EXCEPT ![j] = @ - 1]
    /\ IF has(j) THEN KillAndDelete(j) ELSE UNCHANGED <<activeStreams, procs>>
    /\ UNCHANGED <<dbStatus, dbPort, dbUrl, dbLastError, req, calls, crashed, wsLast>>
    /\ UNCHANGED otherVars

\* DELETE /streams/mappings/:id of a row of output stream j: the DELETE
\* removes the row; the handler makes no call to StreamManager
MappingDeleted(j) ==
    /\ ~crashed
    /\ dbMappings[j] > 0
    /\ dbMappings' = [dbMappings EXCEPT ![j] = @ - 1]
    /\ UNCHANGED <<dbStatus, dbPort, dbUrl, dbLastError, activeStreams, procs,
                   req, calls, crashed, wsLast>>
    /\ UNCHANGED otherVars

NextMappings ==
    \/ Next
    \/ \E j \in Jobs : MappingCreated(j)
    \/ \E j \in Jobs : MappingDeleted(j)

SpecMappings == Init /\ [][NextMappings]_vars

\* --------------------------------------------------------- stopAllStreams
\* a call of stopAllStreams that awaits Promise.all: targets is the registry
\* as Array.from(keys()) found it, ids are the stopOutputStream calls whose
\* UPDATE has not answered yet; at and quiet record the moment of the call
\* (calls made so far, and whether no start was in flight)
StopAllReq(targets, at, quiet) ==
    [op |-> "stopAll", job |-> 0, pc |-> "awaitAll", port |-> NullPort,
     pid |-> NoProc, err |-> ErrNone, res |-> "none",
     targets |-> targets, ids |-> {j \in Jobs : targets[j] # NoProc},
     at |-> at, quiet |-> quiet]

StartInFlight ==
    \E q \in Reqs : req[q].op = "start" /\ req[q].pc \notin {"idle", "done"}

\* the synchronous part of every stopOutputStream(id) of the map: each
\* tracked process is signalled and each entry deleted
KillAndDeleteAll ==
    LET tracked == {activeStreams[j] : j \in {k \in Jobs : has(k)}} IN
    /\ procs' = [p \in Pids |-> IF p \in tracked
                                   THEN [procs[p] EXCEPT !.st = "signalled"]
                                   ELSE procs[p]]
    /\ activeStreams' = NoRegistry

\* stopAllStreams up to `await Promise.all(promises)`: every stopOutputStream(id)
\* of the map runs to its own await, so each tracked process is signalled and
\* each entry deleted before anything else happens
StopAllRequest(r) ==
    LET tracked == {activeStreams[j] : j \in {k \in Jobs : has(k)}} IN
    /\ ~crashed
    /\ req[r].pc \in {"idle", "done"}
    /\ calls < MaxCalls
    /\ calls' = calls + 1
    /\ KillAndDeleteAll
    /\ IF tracked = {}
         THEN SetReq(r, Done("stopAll", 0, "ok", ErrNone))
         ELSE SetReq(r, StopAllReq(activeStreams, calls + 1, ~StartInFlight))
    /\ UNCHANGED <<dbVars, crashed, wsLast>>
    /\ UNCHANGED otherVars

\* the UPDATE of one of the awaited stopOutputStream calls answers; Promise.all
\* resolves with the last of them
StopAllUpdate(r, j) ==
    /\ ~crashed
    /\ req[r].op = "stopAll" /\ req[r].pc = "awaitAll"
    /\ j \in req[r].ids
    /\ dbStatus' = [dbStatus EXCEPT ![j] = "stopped"]
    /\ IF req[r].ids = {j}
         THEN SetReq(r, Done("stopAll", 0, "ok", ErrNone))
         ELSE SetReq(r, [req[r] EXCEPT !.ids = @ \ {j}])
    /\ UNCHANGED <<dbPort, dbUrl, dbLastError, dbMappings, activeStreams, procs,
                   crashed, wsLast, calls>>
    /\ UNCHANGED otherVars

NextStopAll ==
    \/ Next
    \/ \E r \in Reqs : StopAllRequest(r)
    \/ \E r \in Reqs, j \in Jobs : StopAllUpdate(r, j)

\* the supervisor with stopAllStreams callable (index.ts calls it on SIGTERM
\* and SIGINT)
SpecStopAll == Init /\ [][NextStopAll]_vars

\* ---------------------------------------------------------- shutdown
\* the call of shutdown() made for a signal: it awaits the UPDATEs of the
\* stopOutputStream calls ids, or the end of the pool
ShutdownReq(ids, pc) ==
    [op |-> "shutdown", job |-> 0, pc |-> pc, port |-> NullPort,
     pid |-> NoProc, err |-> ErrNone, res |-> "none", ids |-> ids]

shutdownRest == <<pipeline, watch, users, catalog, sock, clients, monitor, http>>

\* `await db.close()`: pool.end() is called
DbClose(r) ==
    /\ SetReq(r, ShutdownReq({}, "closing"))
    /\ server' = [server EXCEPT !.db = "closing"]

\* the process ends: nothing of it runs any more
ProcessEnds(code) ==
    /\ crashed' = TRUE
    /\ server' = [server EXCEPT !.exit = code]

\* SIGTERM or SIGINT is delivered (once): shutdown() runs stopAllStreams to
\* its `await Promise.all`, which an empty registry resolves at once
Signal(r) ==
    LET ids == {j \in Jobs : has(j)} IN
    /\ ~crashed
    /\ req[r].pc \in {"idle", "done"}
    /\ \A q \in Reqs : req[q].op # "shutdown"
    /\ KillAndDeleteAll
    /\ IF ids = {}
         THEN DbClose(r)
         ELSE SetReq(r, ShutdownReq(ids, "awaitAll")) /\ UNCHANGED server
    /\ UNCHANGED <<dbVars, calls, crashed, wsLast>>
    /\ UNCHANGED shutdownRest

\* the UPDATE of one of the awaited stopOutputStream calls answers.  When the
\* last one has answered Promise.all resolves and shutdown() calls db.close().
\* A failed UPDATE rejects Promise.all and with it the promise of shutdown(),
\* which nothing handles: the process ends with exit code 1, its pool open and
\* the other UPDATEs unanswered.
ShutdownUpdate(r, j, answer) ==
    /\ ~crashed
    /\ req[r].op = "shutdown" /\ req[r].pc = "awaitAll"
    /\ j \in req[r].ids
    /\ IF answer = "ok"
         THEN /\ dbStatus' = [dbStatus EXCEPT ![j] = "stopped"]
              /\ IF req[r].ids = {j}
                   THEN DbClose(r)
                   ELSE SetReq(r, [req[r] EXCEPT !.ids = @ \ {j}]) /\ UNCHANGED server
              /\ UNCHANGED crashed
         ELSE /\ SetReq(r, [req[r] EXCEPT !.pc = "rejected", !.ids = @ \ {j}])
              /\ ProcessEnds(1)
              /\ UNCHANGED dbStatus
    /\ UNCHANGED <<dbPort, dbUrl, dbLastError, dbMappings, activeStreams, procs,
                   wsLast, calls>>
    /\ UNCHANGED shutdownRest

\* pool.end() has ended the pool: shutdown() calls process.exit(0)
DbClosed(r) ==
    /\ ~crashed
    /\ req[r].op = "shutdown" /\ req[r].pc = "closing"
    /\ SetReq(r, ShutdownReq({}, "exited"))
    /\ crashed' = TRUE
    /\ server' = [db |-> "closed", exit |-> 0]
    /\ UNCHANGED <<dbVars, activeStreams, procs, calls, wsLast>>
    /\ UNCHANGED shutdownRest

NextShutdown ==
    \/ Next
    \/ \E r \in Reqs : Signal(r)
    \/ \E r \in Reqs, j \in Jobs, a \in {"ok", "error"} : ShutdownUpdate(r, j, a)
    \/ \E r \in Reqs : DbClosed(r)

\* the supervisor in a server that handles SIGTERM and SIGINT
SpecShutdown == Init /\ [][NextShutdown]_vars

\* ------------------------------------------------- stop during a start
\* The supervisor with one history variable: watch[r] records that, while
\* start call r had read its row and had not yet spawned its process, a stop of
\* its job was requested. The program keeps no such record; the calls are the
\* same StartCall and StopCall.
PreLaunch(r, j) ==
    /\ req[r].op = "start" /\ req[r].job = j
    /\ req[r].pc \in {"selectMappings", "awaitStop"}

WatchedStartRequest(r, j) ==
    /\ StartCall(r, j)
    /\ watch' = [watch EXCEPT ![r] = FALSE]
    /\ UNCHANGED <<pipeline, frontVars>>

WatchedStopRequest(r, j) ==
    /\ StopCall(r, j)
    /\ watch' = [q \in Reqs |-> IF q = r THEN FALSE
                                 ELSE watch[q] \/ PreLaunch(q, j)]
    /\ UNCHANGED <<pipeline, frontVars>>

NextWatched ==
    \/ \E r \in Reqs, j \in JobIds : WatchedStartRequest(r, j)
    \/ \E r \in Reqs, o \in SpawnOutcomes : StartSelectMappings(r, o)
    \/ \E r \in Reqs, o \in SpawnOutcomes : StartAfterStop(r, o)
    \/ \E r \in Reqs : StartUpdateRunning(r)
    \/ \E r \in Reqs : StartUpdateError(r)
    \/ \E r \in Reqs, j \in JobIds : WatchedStopRequest(r, j)
    \/ \E r \in Reqs : StopUpdateStopped(r)
    \/ \E p \in Pids : ProcessExit(p)
    \/ \E p \in Pids : ProcessTerminated(p)
    \/ MonitorTick

SpecWatched == Init /\ [][NextWatched]_vars

\* ------------------------------------------------------- command line
\* resolution strings, character by character (output_streams.resolution;
\* createOutputStream admits /^\d+x\d+$/ and the column defaults to the first)
Res1920x1080 == <<"1", "9", "2", "0", "x", "1", "0", "8", "0">>
Res1280x720 == <<"1", "2", "8", "0", "x", "7", "2", "0">>
Res7x5 == <<"7", "x", "5">>
Resolutions == {Res1920x1080, Res1280x720, Res7x5}

DefaultFramerate == 25
DefaultBitrate == "2000k"

Digits == <<"0", "1", "2", "3", "4", "5", "6", "7", "8", "9">>
DigitValue(c) == (CHOOSE i \in 1..10 : Digits[i] = c) - 1

\* Number(text) of a string of decimal digits (Number('') is 0)
RECURSIVE Number(_)
Number(text) ==
    IF text = <<>> THEN 0
    ELSE Number(SubSeq(text, 1, Len(text) - 1)) * 10 + DigitValue(text[Len(text)])

\* resolution.split('x').map(Number), first two parts
SplitResolution(resolution) ==
    LET xs == {i \in 1..Len(resolution) : resolution[i] = "x"}
        first == CHOOSE i \in xs : \A k \in xs : i <= k
        rest == SubSeq(resolution, first + 1, Len(resolution))
        xs2 == {i \in 1..Len(rest) : rest[i] = "x"}
        second == IF xs2 = {} THEN Len(rest) + 1
                  ELSE CHOOSE i \in xs2 : \A k \in xs2 : i <= k
    IN  <<Number(SubSeq(resolution, 1, first - 1)),
          Number(SubSeq(rest, 1, second - 1))>>

\* buildRtspUrl of an input stream row (without credentials: its rtsp_url)
InputUrl(inputStreamId) == <<"rtsp://input", inputStreamId>>

\* the rows of the mappings SELECT, ORDER BY sm.slot_position
RECURSIVE OrderBySlot(_)
OrderBySlot(rows) ==
    IF rows = {} THEN <<>>
    ELSE LET row == CHOOSE m \in rows : \A n \in rows : m.slot_position <= n.slot_position
         IN  <<row>> \o OrderBySlot(rows \ {row})

\* the OutputStreamConfig that startOutputStream builds from the stream row and
\* the mapping rows
Config(stream, rows) ==
    LET sorted == OrderBySlot(rows) IN
    [id |-> 1, name |-> "out", outputPort |-> BasePort,
     resolution |-> stream.resolution,
     framerate |-> DefaultFramerate, bitrate |-> DefaultBitrate,
     mappings |-> [i \in 1..Len(sorted) |->
                     [inputStreamId |-> sorted[i].input_stream_id,
                      inputUrl |-> InputUrl(sorted[i].input_stream_id),
                      slotPosition |-> sorted[i].slot_position,
                      gridRows |-> stream.grid_rows,
                      gridCols |-> stream.grid_cols]]]

\* mutant of CellSize: rows and columns taken for each other
CellSize_Swapped(width, height, gridRows, gridCols) ==
    <<width \div gridRows, height \div gridCols>>

\* cellWidth and cellHeight of buildFilterComplex
CellSize(width, height, gridRows, gridCols) ==
    <<width \div gridCols, height \div gridRows>>

\* mutant of Position: row and column taken for each other
Position_Transposed(slotPosition, gridCols, cell) ==
    LET row == slotPosition % gridCols
        col == slotPosition \div gridCols
    IN  <<col * cell[1], row * cell[2]>>

\* the x and y of one entry of layoutPositions
Position(slotPosition, gridCols, cell) ==
    LET row == slotPosition \div gridCols
        col == slotPosition % gridCols
    IN  <<col * cell[1], row * cell[2]>>

\* the scale stages: `[index:v]scale=w:h,setsar=1[vindex];` for each mapping
ScaleStages(mappings, cell) ==
    [i \in 1..Len(mappings) |->
        [in |-> i - 1, filter |-> "scale", w |-> cell[1], h |-> cell[2],
         setsar |-> 1, out |-> i - 1]]

\* mutant of XStack: one input for each slot of the grid
XStack_WholeGrid(mappings, cell) ==
    LET slots == mappings[1].gridRows * mappings[1].gridCols IN
    [in |-> [i \in 1..slots |-> i - 1],
     filter |-> "xstack", inputs |-> slots,
     layout |-> [i \in 1..slots |-> Position(i - 1, mappings[1].gridCols, cell)],
     out |-> "out"]

\* the composition stage: `[v0][v1]..xstack=inputs=n:layout=x_y|x_y..[out]`
XStack(mappings, cell) ==
    [in |-> [i \in 1..Len(mappings) |-> i - 1],
     filter |-> "xstack", inputs |-> Len(mappings),
     layout |-> [i \in 1..Len(mappings) |->
                    Position(mappings[i].slotPosition, mappings[1].gridCols, cell)],
     out |-> "out"]

\* buildFilterComplex(config), for a config that has mappings
buildFilterComplex(config) ==
    LET size == SplitResolution(config.resolution)
        cell == CellSize(size[1], size[2], config.mappings[1].gridRows,
                         config.mappings[1].gridCols)
    IN  [scale |-> ScaleStages(config.mappings, cell),
         xstack |-> XStack(config.mappings, cell)]

Arg(opt, val) == [opt |-> opt, val |-> val]

\* the `-rtsp_transport tcp -i url` of each mapping
RECURSIVE InputArgs(_)
InputArgs(mappings) ==
    IF mappings = <<>> THEN <<>>
    ELSE <<Arg("-rtsp_transport", "tcp"), Arg("-i", mappings[1].inputUrl)>>
            \o InputArgs(Tail(mappings))

\* args of buildFFmpegProcess(config), option by option; the last one is the
\* output URL
Args(config) ==
    InputArgs(config.mappings)
        \o <<Arg("-filter_complex", buildFilterComplex(config)),
              Arg("-map", "[out]"),
              Arg("-c:v", "libx264"),
              Arg("-preset", "ultrafast"),
              Arg("-tune", "zerolatency"),
              Arg("-b:v", config.bitrate),
              Arg("-r", config.framerate),
              Arg("-s", config.resolution),
              Arg("-f", "rtsp"),
              Arg("-rtsp_transport", "tcp"),
              Arg("", OutputUrl(config.outputPort, config.name))>>

supervisorVars == <<dbStatus, dbPort, dbUrl, dbLastError, dbMappings,
                    activeStreams, procs, req, calls, crashed, wsLast>>

\* one output stream with its layout template and no mapping yet, nothing
\* running
InitPipeline ==
    /\ dbStatus = [j \in Jobs |-> "stopped"]
    /\ dbPort = [j \in Jobs |-> NullPort]
    /\ dbUrl = [j \in Jobs |-> <<>>]
    /\ dbLastError = [j \in Jobs |-> ErrNone]
    /\ dbMappings = [j \in Jobs |-> 0]
    /\ activeStreams = NoRegistry
    /\ procs = [p \in Pids |-> NoChild]
    /\ req = [r \in Reqs |-> IdleReq]
    /\ calls = 0
    /\ crashed = FALSE
    /\ wsLast = [type |-> "none"]
    /\ watch = Unwatched
    /\ FrontIdle
    /\ pipeline \in [phase : {"config"},
                      stream : [grid_rows : 1..MaxGrid, grid_cols : 1..MaxGrid,
                                resolution : Resolutions],
                      rows : {{}}, args : {<<>>},
                      err : {ErrNone}]

\* POST /streams/mappings: the schema admits any integer slotPosition >= 0
\* (400 otherwise), the INSERT fails on UNIQUE(output_stream_id, slot_position)
\* (500), and any other row is stored (201)
CreateMapping(inputStreamId, slotPosition) ==
    /\ pipeline.phase = "config"
    /\ IF slotPosition < 0
         THEN UNCHANGED pipeline
       ELSE IF \E m \in pipeline.rows : m.slot_position = slotPosition
         THEN UNCHANGED pipeline
       ELSE pipeline' = [pipeline EXCEPT
                !.rows = @ \cup {[input_stream_id |-> inputStreamId,
                                   slot_position |-> slotPosition]}]
    /\ UNCHANGED <<supervisorVars, watch, frontVars>>

\* startOutputStream from the rows of its two SELECTs to spawn(ffmpegPath, args)
BuildCommand ==
    /\ pipeline.phase = "config"
    /\ IF pipeline.rows = {}
         THEN pipeline' = [pipeline EXCEPT !.phase = "error", !.err = ErrNoMappings]
         ELSE pipeline' = [pipeline EXCEPT
                !.phase = "spawned",
                !.args = Args(Config(pipeline.stream, pipeline.rows))]
    /\ UNCHANGED <<supervisorVars, watch, frontVars>>

NextPipeline ==
    \/ \E i \in 1..NumInputs, s \in (-1)..MaxSlot : CreateMapping(i, s)
    \/ BuildCommand

SpecPipeline == InitPipeline /\ [][NextPipeline]_vars

\* ------------------------------------------------------------ observers
\* the token of the query string: absent, one that jwt.verify rejects, or one
\* signed for user id uid
Tokens ==
    {[kind |-> "none", uid |-> 0], [kind |-> "bad", uid |-> 0]}
        \cup {[kind |-> "ok", uid |-> u] : u \in Uids}

Connected == [type |-> "connected"]
Snapshot(inputStreams, outputStreams) ==
    [type |-> "stream_status", inputStreams |-> inputStreams,
     outputStreams |-> outputStreams]

InClients(s) == \E i \in 1..Len(clients) : clients[i] = s
\* Set.add and Set.delete keep the insertion order of the other members
SetAdd(cs, s) == IF \E i \in 1..Len(cs) : cs[i] = s THEN cs ELSE Append(cs, s)
SetDelete(cs, s) == SelectSeq(cs, LAMBDA c : c # s)

\* ws.send(message) on an OPEN socket returns at once: the frame reaches a
\* peer whose link is "ok", stays in the socket's buffer when the peer is
\* "slow", and is lost when the link is "broken" (reported later by an
\* 'error' event)
Send(ss, s, message) ==
    [ss EXCEPT ![s].count = @ + 1,
               ![s].got = IF ss[s].link = "ok" THEN message ELSE @]

RECURSIVE SendUntilFailure(_, _, _)
SendUntilFailure(cs, message, ss) ==
    IF cs = <<>> \/ ss[Head(cs)].link # "ok" THEN ss
    ELSE SendUntilFailure(Tail(cs), message,
            IF ss[Head(cs)].ready = "OPEN" THEN Send(ss, Head(cs), message) ELSE ss)

\* this.clients.forEach(client => { if (client.readyState === OPEN) client.send(..) })
RECURSIVE forEach(_, _, _)
forEach(cs, message, ss) ==
    IF cs = <<>> THEN ss
    ELSE forEach(Tail(cs), message,
            IF ss[Head(cs)].ready = "OPEN" THEN Send(ss, Head(cs), message) ELSE ss)

\* mutant of broadcastToClients: the loop ends at the first peer that does
\* not take the frame
broadcastToClients_UntilFailure(message) ==
    sock' = SendUntilFailure(clients, message, sock)

\* WebSocketService.broadcast(message) over the client set
broadcastToClients(message) ==
    sock' = forEach(clients, message, sock)

backVars == <<supervisorVars, pipeline, watch, http, server>>

\* the server is listening: some users, the monitoring interval running
InitObservers ==
    /\ dbStatus = [j \in Jobs |-> "stopped"]
    /\ dbPort = [j \in Jobs |-> NullPort]
    /\ dbUrl = [j \in Jobs |-> <<>>]
    /\ dbLastError = [j \in Jobs |-> ErrNone]
    /\ dbMappings = [j \in Jobs |-> 0]
    /\ activeStreams = NoRegistry
    /\ procs = [p \in Pids |-> NoChild]
    /\ req = [r \in Reqs |-> IdleReq]
    /\ calls = 0
    /\ crashed = FALSE
    /\ wsLast = [type |-> "none"]
    /\ pipeline = NoPipeline
    /\ watch = Unwatched
    /\ users = [u \in Uids |-> IF u = 1 THEN UserRow("admin", TRUE)
                               ELSE IF u = 2 THEN UserRow("viewer", FALSE)
                               ELSE NoUser]
    /\ catalog = [EmptyCatalog EXCEPT !.inputs = {1}, !.outputs = {1}]
    /\ sock = [s \in Socks |-> NoSock]
    /\ clients = <<>>
    /\ monitor = [armed |-> TRUE, tick |-> [t \in Ticks |-> NoTick]]
    /\ http = [h \in Hids |-> NoHttp]
    /\ server = ServerUp

\* ws.close(1008, ..) by the handler
Refuse(s) ==
    sock' = [sock EXCEPT ![s].pc = "refused", ![s].ready = "CLOSED"]

\* wss.on('connection'): the handler up to the await of its users SELECT
Connect(s, token) ==
    /\ sock[s].pc = "none"
    /\ \A q \in Socks : q < s => sock[q].pc # "none"
    /\ IF token.kind = "ok"
         THEN sock' = [sock EXCEPT ![s].pc = "auth", ![s].ready = "OPEN",
                                   ![s].uid = token.uid]
         ELSE sock' = [sock EXCEPT ![s].pc = "refused", ![s].ready = "CLOSED"]
    /\ UNCHANGED <<users, catalog, clients, monitor, backVars>>

\* mutant of AuthAnswer: the SELECT has no `is_active = true` condition
AuthAnswer_NoActiveCheck(s, answer, throws) ==
    /\ sock[s].pc = "auth"
    /\ IF answer = "error" \/ users[sock[s].uid] = NoUser
         THEN /\ Refuse(s)
              /\ UNCHANGED clients
         ELSE /\ clients' = SetAdd(clients, s)
              /\ IF sock[s].ready = "OPEN"
                   THEN sock' = [Send(sock, s, Connected) EXCEPT ![s].pc = "listening"]
                   ELSE sock' = [sock EXCEPT
                            ![s].pc = IF throws THEN "refused" ELSE "listening"]
    /\ UNCHANGED <<users, catalog, monitor, backVars>>

\* the handler from the answer of its SELECT on: an unknown or inactive user,
\* or a failed query, is refused; every other connection is added to the
\* client set, greeted, and only then given its 'close' and 'error'
\* listeners.  A greeting on a socket that has closed meanwhile either throws
\* (the catch block closes the socket, no listener is registered) or is
\* dropped (the listeners are registered on a closed socket), depending on
\* the version of ws.
AuthAnswer(s, answer, throws) ==
    /\ sock[s].pc = "auth"
    /\ IF answer = "error" \/ users[sock[s].uid] = NoUser \/ ~users[sock[s].uid].active
         THEN /\ Refuse(s)
              /\ UNCHANGED clients
         ELSE /\ clients' = SetAdd(clients, s)
              /\ IF sock[s].ready = "OPEN"
                   THEN sock' = [Send(sock, s, Connected) EXCEPT ![s].pc = "listening"]
                   ELSE sock' = [sock EXCEPT
                            ![s].pc = IF throws THEN "refused" ELSE "listening"]
    /\ UNCHANGED <<users, catalog, monitor, backVars>>

\* the peer goes away or the connection fails: the socket is CLOSED and its
\* 'close' (after 'error') event is emitted to the listeners it has by then
SocketCloses(s) ==
    /\ sock[s].ready = "OPEN"
    /\ sock' = [sock EXCEPT ![s].ready = "CLOSED"]
    /\ clients' = IF sock[s].pc = "listening" THEN SetDelete(clients, s) ELSE clients
    /\ UNCHANGED <<users, catalog, monitor, backVars>>

\* the network: a peer stops reading, or its link breaks silently
LinkFails(s, kind) ==
    /\ sock[s].ready = "OPEN" /\ sock[s].link = "ok"
    /\ sock' = [sock EXCEPT ![s].link = kind]
    /\ UNCHANGED <<users, catalog, clients, monitor, backVars>>

SetTick(t, rec) == monitor' = [monitor EXCEPT !.tick[t] = rec]

\* the interval fires: the callback runs to the await of its first SELECT
TickFires(t) ==
    /\ monitor.armed
    /\ monitor.tick[t].pc = "none"
    /\ \A q \in Ticks : q < t => monitor.tick[q].pc # "none"
    /\ SetTick(t, [NoTick EXCEPT !.pc = "inputs"])
    /\ UNCHANGED <<users, catalog, sock, clients, backVars>>

\* mutant of TickInputs: the callback has no try/catch, a failed read ends
\* the monitoring
TickInputs_Uncaught(t, answer) ==
    /\ monitor.tick[t].pc = "inputs"
    /\ IF answer = "rows"
         THEN SetTick(t, [pc |-> "outputs", inputStreams |-> catalog.inputs])
         ELSE monitor' = [armed |-> FALSE,
                          tick |-> [monitor.tick EXCEPT ![t] = [NoTick EXCEPT !.pc = "failed"]]]
    /\ UNCHANGED <<users, catalog, sock, clients, backVars>>

\* SELECT ... FROM input_streams answers (or fails: the catch block logs)
TickInputs(t, answer) ==
    /\ monitor.tick[t].pc = "inputs"
    /\ IF answer = "rows"
         THEN SetTick(t, [pc |-> "outputs", inputStreams |-> catalog.inputs])
         ELSE SetTick(t, [NoTick EXCEPT !.pc = "failed"])
    /\ UNCHANGED <<users, catalog, sock, clients, backVars>>

\* SELECT ... FROM output_streams answers: the snapshot is broadcast
TickOutputs(t, answer) ==
    /\ monitor.tick[t].pc = "outputs"
    /\ IF answer = "rows"
         THEN /\ broadcastToClients(Snapshot(monitor.tick[t].inputStreams,
                                             catalog.outputs))
              /\ SetTick(t, [NoTick EXCEPT !.pc = "sent"])
         ELSE /\ SetTick(t, [NoTick EXCEPT !.pc = "failed"])
              /\ UNCHANGED sock
    /\ UNCHANGED <<users, catalog, clients, backVars>>

\* the effect of POST /streams/input and DELETE /streams/input/:id on the table
InputRowsChange(i) ==
    /\ catalog' = [catalog EXCEPT !.inputs =
                      IF i \in @ THEN @ \ {i} ELSE @ \cup {i}]
    /\ UNCHANGED <<users, sock, clients, monitor, backVars>>

NextObservers ==
    \/ \E s \in Socks, token \in Tokens : Connect(s, token)
    \/ \E s \in Socks, a \in {"rows", "error"}, th \in BOOLEAN : AuthAnswer(s, a, th)
    \/ \E s \in Socks : SocketCloses(s)
    \/ \E s \in Socks, kind \in {"slow", "broken"} : LinkFails(s, kind)
    \/ \E t \in Ticks : TickFires(t)
    \/ \E t \in Ticks, a \in {"rows", "error"} : TickInputs(t, a)
    \/ \E t \in Ticks, a \in {"rows", "error"} : TickOutputs(t, a)
    \/ \E i \in InputIds : InputRowsChange(i)

SpecObservers == InitObservers /\ [][NextObservers]_vars

\* every awaited query is answered, and the interval keeps firing
SpecObserversFair ==
    /\ SpecObservers
    /\ WF_vars(\E s \in Socks, a \in {"rows", "error"}, th \in BOOLEAN : AuthAnswer(s, a, th))
    /\ WF_vars(\E t \in Ticks : TickFires(t))
    /\ WF_vars(\E t \in Ticks, a \in {"rows", "error"} : TickInputs(t, a))
    /\ WF_vars(\E t \in Ticks, a \in {"rows", "error"} : TickOutputs(t, a))

\* ------------------------------------------------------------ the routes
\* the middleware of each route after authenticateToken: the roles that
\* requireRole lets through (every role where the route has no requireRole)
StreamWrites == {"createInput", "deleteInput", "createOutput", "startOutput",
                 "stopOutput", "deleteOutput", "createMapping", "deleteMapping"}
RouteRoles(route) ==
    IF route \in StreamWrites THEN {"admin", "manager"}
    ELSE IF route = "deleteUser" THEN {"admin"}
    ELSE Roles

\* the requests that are sent: ids of rows that may or may not exist
Ask(route, i, input, role, isActive) ==
    [NoHttp EXCEPT !.route = route, !.id = i, !.input = input, !.role = role,
                   !.isActive = isActive]
\* the body of POST /streams/mappings; for DELETE /streams/mappings/:id the
\* three values stand for the id of the row that holds them
AskMapping(route, j, input, slot) ==
    [Ask(route, j, input, "unset", "unset") EXCEPT !.slot = slot]
ApiSlots == 0..MaxApiSlot
Requests ==
    {Ask(rt, i, 0, "unset", "unset") :
        rt \in {"deleteInput", "startOutput", "stopOutput", "deleteOutput"}, i \in Jobs}
    \cup {Ask(rt, 0, 0, "unset", "unset") : rt \in {"getOutputs", "createInput", "createOutput"}}
    \cup {AskMapping(rt, j, i, slot) :
             rt \in {"createMapping", "deleteMapping"}, j \in Jobs, i \in InputIds,
             slot \in ApiSlots}
    \cup {Ask("register", u, 0, role, "unset") : u \in Uids, role \in {"viewer", "admin"}}
    \cup {Ask("updateUser", u, 0, role, a) :
             u \in Uids, role \in {"unset", "admin"}, a \in {"unset", "no"}}
    \cup {Ask("deleteUser", u, 0, "unset", "unset") : u \in Uids}

apiRest == <<supervisorVars, pipeline, watch, sock, clients, monitor, server>>

\* the server is listening: an admin, a manager or a viewer, no third user;
\* one or two input streams, the first mapped to slot 0 of one output stream
InitApi ==
    /\ dbStatus = [j \in Jobs |-> "stopped"]
    /\ dbPort = [j \in Jobs |-> NullPort]
    /\ dbUrl = [j \in Jobs |-> <<>>]
    /\ dbLastError = [j \in Jobs |-> ErrNone]
    /\ dbMappings = [j \in Jobs |-> 0]
    /\ activeStreams = NoRegistry
    /\ procs = [p \in Pids |-> NoChild]
    /\ req = [r \in Reqs |-> IdleReq]
    /\ calls = 0
    /\ crashed = FALSE
    /\ wsLast = [type |-> "none"]
    /\ pipeline = NoPipeline
    /\ watch = Unwatched
    /\ \E role \in {"manager", "viewer"} :
          users = [u \in Uids |-> IF u = 1 THEN UserRow("admin", TRUE)
                                  ELSE IF u = 2 THEN UserRow(role, TRUE)
                                  ELSE NoUser]
    /\ \E inputs \in {{1}, InputIds} :
          catalog = [EmptyCatalog EXCEPT !.inputs = inputs, !.outputs = {1},
                                         !.mappings = {<<1, 1, 0>>}]
    /\ sock = [s \in Socks |-> NoSock]
    /\ clients = <<>>
    /\ monitor = [armed |-> FALSE, tick |-> [t \in Ticks |-> NoTick]]
    /\ http = [h \in Hids |-> NoHttp]
    /\ server = ServerUp

Answer(h, code) == http' = [http EXCEPT ![h].pc = "done", ![h].code = code]

\* a request arrives.  POST /auth/register has no authenticateToken: it goes
\* to its handler, which awaits its SELECT by email.  On every other route
\* authenticateToken answers 401 to a request without token and awaits its
\* users SELECT otherwise.
Arrive(h, request, caller) ==
    /\ http[h].pc = "none"
    /\ \A q \in Hids : q < h => http[q].pc # "none"
    /\ IF request.route = "register"
         THEN http' = [http EXCEPT ![h] = [request EXCEPT !.pc = "lookup", !.caller = caller]]
       ELSE IF caller = 0
         THEN http' = [http EXCEPT ![h] = [request EXCEPT !.pc = "done", !.code = 401]]
       ELSE http' = [http EXCEPT ![h] = [request EXCEPT !.pc = "auth", !.caller = caller]]
    /\ UNCHANGED <<users, catalog, apiRest>>

\* mutant of SlotTaken: the table has no UNIQUE constraint
SlotTaken_Never(mappings, j, slot) == FALSE

\* UNIQUE(output_stream_id, slot_position): the INSERT of a row <<output,
\* input, slot>> fails when the output stream has a row for that slot
SlotTaken(mappings, j, slot) == \E m \in mappings : m[1] = j /\ m[3] = slot

\* the smallest id that has no row (the next value of the SERIAL column)
NewId(ids, all) == CHOOSE i \in all \ ids : \A k \in all \ ids : i <= k

\* the handlers of the streams routes: the statement each one sends to the
\* database, or the call it makes to StreamManager
StreamHandler(h) ==
    LET q == http[h]
        i == q.id
    IN
    /\ CASE q.route = "getOutputs" ->
              /\ Answer(h, 200)
              /\ UNCHANGED catalog
         [] q.route = "createInput" ->
              IF catalog.inputs = InputIds
                THEN Answer(h, 500) /\ UNCHANGED catalog
                ELSE /\ catalog' = [catalog EXCEPT
                            !.inputs = @ \cup {NewId(catalog.inputs, InputIds)}]
                     /\ Answer(h, 201)
         [] q.route = "deleteInput" ->
              IF i \notin catalog.inputs
                THEN Answer(h, 404) /\ UNCHANGED catalog
                ELSE /\ catalog' = [catalog EXCEPT
                            !.inputs = @ \ {i},
                            !.mappings = {m \in @ : m[2] # i}]
                     /\ Answer(h, 200)
         [] q.route = "createOutput" ->
              IF catalog.outputs = Jobs
                THEN Answer(h, 500) /\ UNCHANGED catalog
                ELSE /\ catalog' = [catalog EXCEPT
                            !.outputs = @ \cup {NewId(catalog.outputs, Jobs)}]
                     /\ Answer(h, 201)
         [] q.route = "startOutput" ->
              IF i \in catalog.outputs /\ \E m \in catalog.mappings : m[1] = i
                THEN /\ catalog' = [catalog EXCEPT !.running = @ \cup {i}]
                     /\ Answer(h, 200)
                ELSE Answer(h, 500) /\ UNCHANGED catalog
         [] q.route = "stopOutput" ->
              /\ catalog' = [catalog EXCEPT !.running = @ \ {i}]
              /\ Answer(h, 200)
         [] q.route = "deleteOutput" ->
              IF i \notin catalog.outputs
                THEN /\ catalog' = [catalog EXCEPT !.running = @ \ {i}]
                     /\ Answer(h, 404)
                ELSE /\ catalog' = [catalog EXCEPT
                            !.running = @ \ {i},
                            !.outputs = @ \ {i},
                            !.mappings = {m \in @ : m[1] # i}]
                     /\ Answer(h, 200)
         [] q.route = "createMapping" ->
              IF i \in catalog.outputs /\ q.input \in catalog.inputs
                     /\ ~SlotTaken(catalog.mappings, i, q.slot)
                THEN /\ catalog' = [catalog EXCEPT
                            !.mappings = @ \cup {<<i, q.input, q.slot>>}]
                     /\ Answer(h, 201)
                ELSE Answer(h, 500) /\ UNCHANGED catalog
         [] q.route = "deleteMapping" ->
              IF <<i, q.input, q.slot>> \in catalog.mappings
                THEN /\ catalog' = [catalog EXCEPT
                            !.mappings = @ \ {<<i, q.input, q.slot>>}]
                     /\ Answer(h, 200)
                ELSE Answer(h, 404) /\ UNCHANGED catalog
    /\ UNCHANGED users

\* PUT /users/:id and DELETE /users/:id after their middleware
UserHandler(h, me) ==
    LET q == http[h]
        u == q.id
        isAdmin == me.role = "admin"
        isSelf == q.caller = u
    IN
    /\ CASE q.route = "updateUser" ->
              IF ~isAdmin /\ ~isSelf
                THEN Answer(h, 403) /\ UNCHANGED users
              ELSE IF ~isAdmin /\ (q.role # "unset" \/ q.isActive # "unset")
                THEN Answer(h, 403) /\ UNCHANGED users
              ELSE IF users[u] = NoUser
                THEN Answer(h, 404) /\ UNCHANGED users
              ELSE /\ users' = [users EXCEPT
                          ![u].role = IF q.role # "unset" /\ isAdmin THEN q.role ELSE @,
                          ![u].active = IF q.isActive # "unset" /\ isAdmin
                                          THEN q.isActive = "yes" ELSE @]
                   /\ Answer(h, 200)
         [] q.route = "deleteUser" ->
              IF isSelf
                THEN Answer(h, 400) /\ UNCHANGED users
              ELSE IF users[u] = NoUser
                THEN Answer(h, 404) /\ UNCHANGED users
              ELSE /\ users' = [users EXCEPT ![u] = NoUser]
                   /\ Answer(h, 200)
    /\ UNCHANGED catalog

\* mutant of requireRole: every authenticated user passes
requireRole_AnyRole(roles, role) == TRUE

\* requireRole(...roles): roles.includes(req.user.role)
requireRole(roles, role) == role \in roles

\* the users SELECT of authenticateToken answers: no row or an inactive user
\* is answered 403; otherwise requireRole and the handler run at once
Authenticated(h) ==
    LET q == http[h]
        me == users[q.caller]
    IN
    /\ q.pc = "auth"
    /\ IF me = NoUser \/ ~me.active
         THEN Answer(h, 403) /\ UNCHANGED <<users, catalog>>
       ELSE IF ~requireRole(RouteRoles(q.route), me.role)
         THEN Answer(h, 403) /\ UNCHANGED <<users, catalog>>
       ELSE IF q.route \in {"updateUser", "deleteUser"}
         THEN UserHandler(h, me)
       ELSE StreamHandler(h)
    /\ UNCHANGED apiRest

\* POST /auth/register from the answer of its SELECT by email: 409 when the
\* address is taken, else the INSERT with the role of the body
Register(h) ==
    LET q == http[h] IN
    /\ q.pc = "lookup"
    /\ IF users[q.id] # NoUser
         THEN Answer(h, 409) /\ UNCHANGED users
         ELSE /\ users' = [users EXCEPT ![q.id] = UserRow(q.role, TRUE)]
              /\ Answer(h, 201)
    /\ UNCHANGED <<catalog, apiRest>>

NextApi ==
    \/ \E h \in Hids, request \in Requests, caller \in {0} \cup Uids :
            Arrive(h, request, caller)
    \/ \E h \in Hids : Authenticated(h)
    \/ \E h \in Hids : Register(h)

SpecApi == InitApi /\ [][NextApi]_vars

TypeOK ==
    /\ dbStatus \in [Jobs -> {"stopped", "running", "error"}]
    /\ activeStreams \in [Jobs -> Pids \cup {NoProc}]
    /\ \A j \in Jobs : activeStreams[j] # NoProc => procs[activeStreams[j]].st = "live"

\* ================================================================ claims
Spawned(p) == procs[p].st \in {"live", "signalled"}
InFlight(j) == \E r \in Reqs : req[r].job = j /\ req[r].pc \notin {"idle", "done"}

\* the step in which start call r resumes from its second SELECT
StartResumes(r) ==
    /\ req[r].op = "start" /\ req[r].pc = "selectMappings"
    /\ req'[r].pc # "selectMappings"
    /\ ~crashed'

\* C1: no two jobs that both have a spawned, not yet terminated process were
\* launched on the same output port.
C1_PortOwnedByOneJob ==
    \A p, q \in Pids :
        (Spawned(p) /\ Spawned(q) /\ procs[p].job # procs[q].job)
            => procs[p].port # procs[q].port

\* C2: a step never spawns a process for a job while the registry tracks a
\* process for that job.
C2_NoSpawnWhileTracked ==
    [][\A p \in Pids :
          (procs[p].st = "none" /\ procs'[p].st \in {"live", "failed"})
              => activeStreams[procs'[p].job] = NoProc]_vars

C4_UnsolicitedExitRecorded ==
    [][\A p \in Pids :
          (/\ procs[p].st = "live" /\ procs'[p].st = "closed"
           /\ activeStreams[procs[p].job] = p
           /\ dbStatus[procs[p].job] = "running")
              => /\ dbStatus'[procs[p].job] = "error"
                 /\ dbLastError'[procs[p].job] # ErrNone]_vars

\* C5: a start that succeeds pushes a `started` event, a stop that completes a
\* `stopped` event and an unsolicited exit an `error` event, when it occurs.
C5_LifecycleEventsPushed ==
    [][/\ \A r \in Reqs :
            (req[r].pc = "updateRunning" /\ req'[r].pc = "done" /\ req'[r].res = "ok")
                => wsLast' = [type |-> "stream_event", eventType |-> "started",
                              streamId |-> req[r].job]
       /\ \A r \in Reqs :
            (req[r].pc = "updateStopped" /\ req'[r].pc = "done")
                => wsLast' = [type |-> "stream_event", eventType |-> "stopped",
                              streamId |-> req[r].job]
       /\ \A p \in Pids :
            (procs[p].st = "live" /\ procs'[p].st = "closed")
                => wsLast' = [type |-> "stream_event", eventType |-> "error",
                              streamId |-> procs[p].job]]_vars

\* C6: whenever no start or stop of a job is in flight, its persisted status is
\* 'running' if and only if the registry tracks a live process for it.
C6_StatusMatchesRegistry ==
    \A j \in Jobs :
        (~crashed /\ ~InFlight(j))
            => (dbStatus[j] = "running" <=> has(j))

\* C7: when a stop of a job with a live process completes, the persisted status
\* is 'stopped' and the job has no persisted port or URL any more.
C7_StopDetachesEndpoint ==
    [][\A r \in Reqs :
          (req[r].op = "stop" /\ req[r].pc = "updateStopped" /\ req'[r].pc = "done")
              => /\ dbStatus'[req[r].job] = "stopped"
                 /\ dbPort'[req[r].job] = NullPort
                 /\ dbUrl'[req[r].job] = <<>>]_vars

\* C8: a stop call for a job that has no tracked process returns successfully
\* in that same step and changes neither the registry, nor any process (no
\* signal), nor any persisted field, nor what is broadcast.
C8_StopWithoutProcessIsNoop ==
    [][\A r \in Reqs :
          (/\ calls' = calls + 1
           /\ req'[r] # req[r] /\ req'[r].op = "stop"
           /\ ~has(req'[r].job))
              => /\ req'[r].pc = "done" /\ req'[r].res = "ok"
                 /\ UNCHANGED <<activeStreams, procs, dbVars, wsLast>>]_vars

C8_Witness ==
    \E r \in Reqs :
        /\ req[r].op = "stop" /\ req[r].pc = "done" /\ req[r].res = "ok"
        /\ req[r].job \in Jobs
        /\ calls = 1

\* C9: when a start fails, the persisted status is 'error' with the failure
\* message, the error reaches the caller, and the process that this attempt
\* spawned (if any) is neither running nor tracked.
C9_FailedStartHoldsNothing ==
    [][\A r \in Reqs :
          (req[r].op = "start" /\ req[r].pc = "updateError" /\ req'[r].pc = "done")
              => /\ dbStatus'[req[r].job] = "error"
                 /\ dbLastError'[req[r].job] = req[r].err
                 /\ req'[r].res = "error" /\ req'[r].err = req[r].err
                 /\ req[r].pid # NoProc
                      => /\ procs'[req[r].pid].st # "live"
                         /\ activeStreams'[req[r].job] # req[r].pid]_vars

\* C10: after a launch failure the persisted status of the job is 'error' and
\* the supervisor is still there to report it.
C10_LaunchFailureSurfaced ==
    \A p \in Pids :
        procs[p].st = "failed"
            => /\ dbStatus[procs[p].job] = "error"
               /\ ~crashed

\* C11: a start of a job that has no mapping fails when its second SELECT
\* answers: in that step the call turns to its error path with 'No input
\* streams mapped to this output', it has no port and no process, and no
\* process is spawned or signalled and the registry is as before.
C11_NoMappingsNoLaunch ==
    [][\A r \in Reqs :
          (StartResumes(r) /\ dbMappings[req[r].job] = 0)
              => /\ req'[r].pc = "updateError"
                 /\ req'[r].err = ErrNoMappings
                 /\ req'[r].port = req[r].port
                 /\ req'[r].pid = NoProc
                 /\ UNCHANGED <<procs, activeStreams>>]_vars

C11_Witness ==
    \E r \in Reqs :
        /\ req[r].op = "start" /\ req[r].pc = "updateError"
        /\ req[r].err = ErrNoMappings
        /\ dbMappings[req[r].job] = 0
        /\ dbPort[req[r].job] = NullPort
        /\ \A p \in Pids : procs[p].job # req[r].job

\* C12: a start of an id that has no row is rejected with 'Output stream not
\* found' in the step that issues it; that step spawns and signals nothing and
\* leaves the registry and every persisted field of every job as they were.
C12_UnknownIdTouchesNothing ==
    [][\A r \in Reqs :
          (/\ calls' = calls + 1
           /\ req'[r] # req[r] /\ req'[r].op = "start"
           /\ req'[r].job \notin Jobs)
              => /\ req'[r].pc = "done" /\ req'[r].res = "error"
                 /\ req'[r].err = ErrNotFound
                 /\ req'[r].port = NullPort /\ req'[r].pid = NoProc
                 /\ UNCHANGED <<activeStreams, procs, dbVars>>]_vars

\* an unknown id was started while another job was running
C12_Witness ==
    \E r \in Reqs :
        /\ req[r] = Done("start", UnknownId, "error", ErrNotFound)
        /\ \E j \in Jobs : has(j) /\ dbStatus[j] = "running"

\* C13: when a call of stopAllStreams returns, and no start was in flight when
\* it was called and no call was issued since, the registry is empty, every
\* job that was tracked at the call has persisted status 'stopped', and every
\* process that was tracked at the call has terminated.
C13_StopAllLeavesNothingRunning ==
    [][\A r \in Reqs :
          (/\ req[r].op = "stopAll" /\ req[r].pc = "awaitAll"
           /\ req'[r].pc = "done"
           /\ req[r].quiet /\ calls = req[r].at)
              => /\ activeStreams' = NoRegistry
                 /\ \A j \in Jobs :
                       req[r].targets[j] # NoProc
                           => /\ dbStatus'[j] = "stopped"
                              /\ procs'[req[r].targets[j]].st = "closed"]_vars

\* the ports that spawned processes were given: of those still running
\* unsignalled, and of all that have not terminated
BoundLive == {procs[p].port : p \in {q \in Pids : procs[q].st = "live"}}
BoundSpawned == {procs[p].port : p \in {q \in Pids : Spawned(q)}}

\* the lowest port from the base port upwards that is not in bound
FirstFree(bound) ==
    LET free == {i \in 0..Cardinality(bound) : (BasePort + i) \notin bound}
    IN  BasePort + CHOOSE i \in free : \A k \in free : i <= k

\* the step in which start call r obtains its port from the allocator (the row
\* had no output_port) and goes on with it
Acquires(r) ==
    /\ StartResumes(r)
    /\ req[r].port = NullPort
    /\ req'[r].port # NullPort

\* C14: a port obtained from the allocator is the lowest port, from the base
\* port upwards, that is not bound to a live process (whether or not a process
\* that was signalled and has not ended yet counts as live).
C14_AcquiresFirstFreePort ==
    [][\A r \in Reqs :
          Acquires(r)
              => req'[r].port \in {FirstFree(BoundLive), FirstFree(BoundSpawned)}]_vars

\* C15: as long as every process ever spawned is still running unsignalled and
\* no job was spawned twice (starts of distinct, never-started jobs with no
\* stop, exit or failure in between), the ports given to the processes are
\* pairwise distinct.
C15_SequentialPortsDistinct ==
    (/\ \A p \in Pids : procs[p].st \in {"none", "live"}
     /\ \A p, q \in Pids :
           (procs[p].st = "live" /\ procs[q].st = "live" /\ p # q)
               => procs[p].job # procs[q].job)
        => \A p, q \in Pids :
              (procs[p].st = "live" /\ procs[q].st = "live" /\ p # q)
                  => procs[p].port # procs[q].port

\* every job has been started once and all of them run
C15_Witness ==
    /\ \A j \in Jobs : \E p \in Pids : procs[p].st = "live" /\ procs[p].job = j
    /\ \A p \in Pids : procs[p].st \in {"none", "live"}
    /\ Cardinality({p \in Pids : procs[p].st = "live"}) = NumJobs

\* C16: a port obtained from the allocator lies in the configured range and is
\* not bound to a running process at that moment.
C16_AcquiredPortInRangeAndFree ==
    [][\A r \in Reqs :
          Acquires(r)
              => /\ req'[r].port \in BasePort..(BasePort + PortRange - 1)
                 /\ req'[r].port \notin BoundLive]_vars

\* ---- the command line of a spawned pipeline, read back
\* the canvas that each resolution string stands for
Canvas ==
    (Res1920x1080 :> <<1920, 1080>>) @@ (Res1280x720 :> <<1280, 720>>)
        @@ (Res7x5 :> <<7, 5>>)

Built == pipeline.phase = "spawned"
R == pipeline.stream.grid_rows
C == pipeline.stream.grid_cols
W == Canvas[pipeline.stream.resolution][1]
H == Canvas[pipeline.stream.resolution][2]
Slots == {m.slot_position : m \in pipeline.rows}
K == Cardinality(Slots)
InRange == \A s \in Slots : s < R * C
AllMapped == Slots = 0..(R * C - 1)

\* the i-th mapped slot in the order of slot indices, and its mapping row
NthSlot(i) == CHOOSE s \in Slots : Cardinality({t \in Slots : t < s}) = i - 1
NthRow(i) == CHOOSE m \in pipeline.rows : m.slot_position = NthSlot(i)

WithOpt(opt) == SelectSeq(pipeline.args, LAMBDA a : a.opt = opt)
Filter == WithOpt("-filter_complex")[1].val

\* where and how large the i-th input is drawn
Rect(i) ==
    [x |-> Filter.xstack.layout[i][1], y |-> Filter.xstack.layout[i][2],
     w |-> Filter.scale[i].w, h |-> Filter.scale[i].h]

\* the rectangle of slot s as the layout rule gives it
SlotRect(s) ==
    [x |-> (s % C) * (W \div C), y |-> (s \div C) * (H \div R),
     w |-> W \div C, h |-> H \div R]

Disjoint(a, b) ==
    \/ a.x + a.w <= b.x \/ b.x + b.w <= a.x
    \/ a.y + a.h <= b.y \/ b.y + b.h <= a.y

NonOverlapping == \A i, j \in 1..K : i # j => Disjoint(Rect(i), Rect(j))

InsideCanvas ==
    \A i \in 1..K :
        /\ Rect(i).x >= 0 /\ Rect(i).x + Rect(i).w <= W
        /\ Rect(i).y >= 0 /\ Rect(i).y + Rect(i).h <= H

FloorSized == \A i \in 1..K : Rect(i).w = W \div C /\ Rect(i).h = H \div R

\* the area of the first i rectangles
RECURSIVE Area(_)
Area(i) == IF i = 0 THEN 0 ELSE Area(i - 1) + Rect(i).w * Rect(i).h

\* C18 (as stated): with all R*C slots mapped the rectangles, each of size
\* floor(W/C) x floor(H/R), do not overlap and leave no canvas area uncovered.
C18_TilesCanvasExactly ==
    (Built /\ AllMapped)
        => /\ FloorSized
           /\ NonOverlapping
           /\ InsideCanvas
           /\ Area(K) = W * H

\* C18 (amended): with all R*C slots mapped the rectangles, each of size
\* floor(W/C) x floor(H/R), do not overlap and lie inside the canvas; they
\* cover all of it but the last W mod C columns and the last H mod R rows,
\* hence the whole canvas exactly when C divides W and R divides H.
C18_TilesUpToRemainder ==
    (Built /\ AllMapped)
        => /\ FloorSized
           /\ NonOverlapping
           /\ InsideCanvas
           /\ Area(K) = (W - (W % C)) * (H - (H % R))
           /\ Area(K) = W * H <=> (W % C = 0 /\ H % R = 0)

\* all slots of a grid of several cells mapped on a canvas that the grid does
\* not divide
C18_Witness ==
    /\ Built /\ AllMapped
    /\ K > 1
    /\ W % C # 0
    /\ Area(K) < W * H

\* C19: a command is never built from a mapping whose slot index is outside
\* [0, R*C).
C19_OutOfRangeSlotRejected ==
    Built => InRange

\* C20: a command built from k >= 1 mappings of slots within the grid has k
\* inputs, those of the mappings in the order of their slots; k scale stages,
\* the i-th reading input i; one xstack over those k scaled streams that puts
\* the i-th at the rectangle of the i-th mapping's slot; one encoder and one
\* output; and there is no error.
C20_OneStagePerMapping ==
    (Built /\ K >= 1 /\ InRange)
        => /\ Len(WithOpt("-i")) = K
           /\ \A i \in 1..K : WithOpt("-i")[i].val = InputUrl(NthRow(i).input_stream_id)
           /\ Len(WithOpt("-filter_complex")) = 1
           /\ Len(Filter.scale) = K
           /\ \A i \in 1..K : Filter.scale[i].in = i - 1 /\ Filter.scale[i].out = i - 1
           /\ Filter.xstack.inputs = K
           /\ Filter.xstack.in = [i \in 1..K |-> i - 1]
           /\ \A i \in 1..K : Rect(i) = SlotRect(NthSlot(i))
           /\ WithOpt("-map") = <<Arg("-map", "[out]")>>
           /\ Len(WithOpt("-c:v")) = 1
           /\ WithOpt("-f") = <<Arg("-f", "rtsp")>>
           /\ Len(WithOpt("")) = 1
           /\ pipeline.args[Len(pipeline.args)].opt = ""
           /\ pipeline.err = ErrNone

\* some slots of the grid are mapped, a lower one is not
C20_Witness ==
    /\ Built /\ InRange
    /\ K >= 2 /\ K < R * C
    /\ \E s \in Slots : \E t \in 0..s : t \notin Slots
    /\ Len(WithOpt("-i")) = K

\* the step in which start call r returns successfully
StartSucceeds(r) ==
    /\ req[r].op = "start" /\ req[r].pc = "updateRunning"
    /\ req'[r].pc = "done" /\ req'[r].res = "ok"

\* the step in which stop call r returns after its UPDATE
StopCompletes(r) ==
    /\ req[r].op = "stop" /\ req[r].pc = "updateStopped"
    /\ req'[r].pc = "done"

\* C24: when a start returns successfully and the process it launched is
\* still running unsignalled, the id of its job is in getActiveStreams().
C24_StartedJobIsListed ==
    [][\A r \in Reqs :
          (StartSucceeds(r) /\ procs[req[r].pid].st = "live")
              => req[r].job \in getActiveStreams']_vars

\* C27: a step never launches a process on a port on which a process that was
\* sent SIGTERM has not exited yet.
C27_PortFreeOnlyAfterExit ==
    [][\A p, q \in Pids :
          (procs[p].st = "none" /\ procs'[p].st = "live" /\ procs[q].st = "signalled")
              => procs'[p].port # procs[q].port]_vars

\* C28: when a stop returns, no process of its job is left signalled but not
\* exited.
C28_StopCompletesAfterExit ==
    [][\A r \in Reqs : \A p \in Pids :
          (StopCompletes(r) /\ procs'[p].job = req[r].job)
              => procs'[p].st # "signalled"]_vars

\* a stop call of job j has sent its signal and has not returned yet
Stopping(j) ==
    \E q \in Reqs : req[q].op = "stop" /\ req[q].job = j /\ req[q].pc = "updateStopped"

\* C30: a start call takes no step that launches a process or writes the
\* persisted status of its job while a stop call of that job has not returned.
C30_StartWaitsForStop ==
    [][\A r \in Reqs :
          (/\ req[r].op = "start" /\ req'[r] # req[r]
           /\ (procs' # procs \/ dbStatus' # dbStatus))
              => ~Stopping(req[r].job)]_vars

\* C29: when a start call returns successfully, a stop of its job was
\* requested while that start had not yet spawned its process, and every stop
\* of the job has returned, then the process the start launched is not left
\* running.
C29_StopDuringStartCancels ==
    [][\A r \in Reqs :
          (StartSucceeds(r) /\ watch[r] /\ ~Stopping(req[r].job))
              => procs'[req[r].pid].st # "live"]_vars

\* C21: a connection whose socket has closed is eventually absent from the
\* client set.
C21_ClosedObserverPruned ==
    \A s \in Socks : (sock[s].ready = "CLOSED") ~> ~InClients(s)

\* the step in which tick t broadcasts its snapshot
TickBroadcasts(t) ==
    monitor.tick[t].pc = "outputs" /\ monitor'.tick[t].pc = "sent"

Listening(s) == InClients(s) /\ sock[s].ready = "OPEN"

\* C22: a broadcast reaches every OPEN client whose own link is good, whatever
\* the state of the other clients' links: slow (the send is buffered) or
\* broken (the send fails).
C22_BroadcastReachesTheOthers ==
    [][\A t \in Ticks : \A s \in Socks :
          (TickBroadcasts(t) /\ Listening(s) /\ sock[s].link = "ok")
              => /\ sock'[s].got.type = "stream_status"
                 /\ sock'[s].count = sock[s].count + 1]_vars

\* the first client of the set was sent a snapshot that did not reach it, the
\* second one received it
C22_Witness ==
    /\ Len(clients) = 2
    /\ sock[clients[1]].link # "ok" /\ sock[clients[1]].ready = "OPEN"
    /\ sock[clients[1]].count = 2 /\ sock[clients[1]].got = Connected
    /\ sock[clients[2]].got.type = "stream_status"

\* C23: a tick reads all rows of input_streams, then all rows of
\* output_streams, and then gives one snapshot made of both to the socket of
\* every OPEN client and to no other; a tick one of whose reads fails sends
\* nothing and leaves the interval running.
C23_TickPushesFullSnapshot ==
    [][\A t \in Ticks :
          /\ (monitor.tick[t].pc = "inputs" /\ monitor'.tick[t].pc = "outputs")
                => monitor'.tick[t].inputStreams = catalog.inputs
          /\ TickBroadcasts(t)
                => \A s \in Socks :
                      IF Listening(s)
                        THEN /\ sock'[s].count = sock[s].count + 1
                             /\ sock[s].link = "ok" =>
                                   sock'[s].got = Snapshot(monitor.tick[t].inputStreams,
                                                           catalog.outputs)
                        ELSE sock'[s] = sock[s]
          /\ (monitor.tick[t].pc # "failed" /\ monitor'.tick[t].pc = "failed")
                => sock' = sock /\ monitor'.armed]_vars

\* after a tick that failed, a later tick has delivered a snapshot
C23_Witness ==
    /\ monitor.tick[1].pc = "failed" /\ monitor.tick[2].pc = "sent"
    /\ \E s \in Socks : Listening(s) /\ sock[s].got.type = "stream_status"

\* the step in which the handler of request h, sent by a user whose role is
\* one of roles, gives its answer
ActsAs(h, roles) ==
    /\ http[h].pc \in {"auth", "lookup"} /\ http'[h].pc = "done"
    /\ http[h].caller \in Uids
    /\ users[http[h].caller].role \in roles

\* C25: the answer to a request of a Viewer changes no row of input_streams,
\* output_streams or stream_mappings and starts or stops no output stream.
C25_ViewerChangesNothing ==
    [][\A h \in Hids : ActsAs(h, {"viewer"}) => catalog' = catalog]_vars

\* an active Viewer has asked for a change of the streams and was answered 403
C25_Witness ==
    \E h \in Hids :
        /\ http[h].pc = "done" /\ http[h].route \in StreamWrites
        /\ http[h].caller \in Uids
        /\ users[http[h].caller] = UserRow("viewer", TRUE)
        /\ http[h].code = 403

\* C26: the answer to a request of a Manager or a Viewer creates no row of
\* users, deletes none and changes no role and no active flag.
C26_OnlyAdminManagesUsers ==
    [][\A h \in Hids : ActsAs(h, {"manager", "viewer"}) => users' = users]_vars

\* the step in which process p is spawned
Spawns(p) == procs[p].st = "none" /\ procs'[p].st \in {"live", "failed"}

\* the step in which the 'close' handler of process p runs
Closes(p) == procs[p].st \in {"live", "signalled"} /\ procs'[p].st = "closed"

\* C31: when a start returns successfully the persisted status of its job is
\* 'running' and, if the job has a tracked process, the persisted port and URL
\* are those that process was launched on; and 'running' is written only by a
\* start call that has spawned and registered a process.
C31_RunningMatchesTrackedProcess ==
    [][\A r \in Reqs : \A j \in Jobs :
          req[r].job = j =>
          /\ StartSucceeds(r)
                => /\ dbStatus'[j] = "running"
                   /\ has(j) => /\ dbPort'[j] = procs[activeStreams[j]].port
                                /\ dbUrl'[j] = OutputUrl(procs[activeStreams[j]].port, j)
          /\ (req[r].op = "start" /\ req'[r] # req[r] /\ ~crashed'
                /\ dbStatus'[j] = "running" /\ dbStatus[j] # "running")
                => req[r].pc = "updateRunning" /\ req[r].pid # NoProc]_vars

\* C32: a process is spawned only by a step of a start call of its job; the
\* exit of a process spawns nothing.
C32_NoAutomaticRestart ==
    [][\A p \in Pids :
          Spawns(p) => \E r \in Reqs :
                          /\ req[r].op = "start" /\ req[r].job = procs'[p].job
                          /\ req[r].pc \in {"selectMappings", "awaitStop"}
                          /\ req'[r] # req[r]]_vars

\* a process has exited on its own, its job is neither tracked nor being
\* started, and no process of the job is left
C32_Witness ==
    \E p \in Pids : \E j \in Jobs :
        /\ procs[p].st = "closed"
        /\ ~has(j) /\ ~InFlight(j)
        /\ dbStatus[j] = "running"
        /\ \A q \in Pids : procs[q].job # j

\* C35: while the server is up, every spawned process that has neither exited
\* nor been sent SIGTERM is the registry entry of its job.
C35_NoOrphanProcess ==
    ~crashed =>
        \A p \in Pids : procs[p].st = "live" => activeStreams[procs[p].job] = p

\* C36: the 'close' handler of a process that is not the registry entry of its
\* job leaves that entry as it is.
C36_ExitRemovesOwnEntryOnly ==
    [][\A p \in Pids :
          (Closes(p) /\ activeStreams[procs[p].job] # p)
              => activeStreams'[procs[p].job] = activeStreams[procs[p].job]]_vars

\* a start call that found a persisted port in the row of its job decides
\* its launch port in this step
LaterStartLaunches(r, j) ==
    /\ req[r].op = "start" /\ req[r].job = j
    /\ req[r].pc = "selectMappings" /\ req[r].port # NullPort
    /\ ~crashed'
    /\ req'[r].pc \in {"awaitStop", "updateRunning"}

\* C37: a start that found a persisted port for its job launches on the port
\* persisted for the job (whatever stops came in between and whoever holds
\* the port), acquiring nothing.
C37_PersistedPortIsSticky ==
    [][\A r \in Reqs : \A j \in Jobs :
          LaterStartLaunches(r, j)
              => /\ req'[r].port = dbPort[j]
                 /\ req'[r].pc = "updateRunning"
                       => procs'[req'[r].pid].port = dbPort[j]]_vars

\* a start launches on the port persisted for its job after a stop of the job,
\* while a live process of another job holds that port
C37_Witness ==
    \E r \in Reqs : \E j \in Jobs : \E p, q \in Pids :
        /\ req[r].op = "start" /\ req[r].job = j /\ req[r].pc = "updateRunning"
        /\ req[r].pid = p /\ procs[p].port = dbPort[j] /\ dbPort[j] # NullPort
        /\ procs[q].st = "live" /\ procs[q].job # j /\ procs[q].port = dbPort[j]

\* C38: the step in which a start returns successfully or a stop returns
\* leaves every last_error as it is, and a last_error changes only in the step
\* in which a failed start writes it.
C38_LastErrorKept ==
    [][/\ \A r \in Reqs : (StartSucceeds(r) \/ StopCompletes(r))
                              => dbLastError' = dbLastError
       /\ \A j \in Jobs : dbLastError'[j] # dbLastError[j]
             => \E r \in Reqs : /\ req[r].op = "start" /\ req[r].job = j
                                /\ req[r].pc = "updateError"
                                /\ req'[r].res = "error"
                                /\ dbLastError'[j] = req[r].err]_vars

\* a start has returned successfully and its job is 'running' and tracked
\* with the message of an earlier failed start still recorded
C38_Witness ==
    \E j \in Jobs : \E r \in Reqs :
        /\ dbLastError[j] # ErrNone
        /\ dbStatus[j] = "running" /\ has(j)
        /\ req[r] = Done("start", j, "ok", ErrNone)

\* the token of connection s was verified and names an existing, active user
Admissible(s) ==
    /\ sock[s].uid # 0
    /\ users[sock[s].uid] # NoUser
    /\ users[sock[s].uid].active

\* C39: a connection is in the client set, or has been sent anything, only
\* after its handler found its token valid and its user existing and active;
\* a connection whose handler found otherwise is closed, is not in the set
\* and has been sent nothing.
C39_OnlyAuthenticatedObservers ==
    \A s \in Socks :
        /\ (InClients(s) \/ sock[s].count > 0 \/ sock[s].got # NoMessage)
              => Admissible(s) /\ sock[s].pc \in {"listening", "refused"}
        /\ (sock[s].pc \notin {"none", "auth"} /\ ~Admissible(s))
              => /\ sock[s].pc = "refused" /\ sock[s].ready = "CLOSED"
                 /\ ~InClients(s)
                 /\ sock[s].count = 0 /\ sock[s].got = NoMessage

\* the connection of an inactive user has been refused, and a snapshot has
\* been broadcast to another connection
C39_Witness ==
    \E s, q \in Socks :
        /\ sock[s].pc = "refused" /\ sock[s].uid # 0
        /\ users[sock[s].uid] # NoUser /\ ~users[sock[s].uid].active
        /\ sock[q].pc = "listening" /\ sock[q].got # NoMessage
        /\ sock[q].got.type = "stream_status"

\* the handler of request h runs in this step on a POST /streams/mappings that
\* asks for a slot the output stream has a row for
CreateOnOccupiedSlot(h) ==
    /\ http[h].pc = "auth" /\ http'[h].pc = "done"
    /\ http[h].route = "createMapping"
    /\ SlotTaken(catalog.mappings, http[h].id, http[h].slot)

\* C34: after every request no two rows of stream_mappings have the same
\* output stream and slot, and a create for a slot that is taken is not
\* answered 201 and leaves the rows as they are.
C34_OneSourcePerSlot ==
    [][/\ \A m, n \in catalog'.mappings :
             (m[1] = n[1] /\ m[3] = n[3]) => m = n
       /\ \A h \in Hids :
             CreateOnOccupiedSlot(h)
                 => /\ http'[h].code # 201
                    /\ catalog'.mappings = catalog.mappings]_vars

\* an admitted create asked for the taken slot with another source: it was
\* answered 500 and the row of the first source is still there
C34_Witness ==
    \E h \in Hids :
        /\ http[h].pc = "done" /\ http[h].route = "createMapping"
        /\ http[h].code = 500
        /\ http[h].input \in catalog.inputs /\ http[h].id \in catalog.outputs
        /\ \E m \in catalog.mappings :
              m[1] = http[h].id /\ m[3] = http[h].slot /\ m[2] # http[h].input

\* C33: a step that adds or removes a mapping row leaves every process, the
\* registry, every persisted status and every call in flight as they are, and
\* a start whose mappings SELECT answers afterwards is decided by the rows
\* there are then, whatever process its job has.
C33_MappingChangeWaitsForNextStart ==
    [][/\ dbMappings' # dbMappings
          => /\ procs' = procs /\ activeStreams' = activeStreams
             /\ dbStatus' = dbStatus /\ dbPort' = dbPort /\ dbUrl' = dbUrl
             /\ req' = req /\ wsLast' = wsLast
       /\ \A r \in Reqs : \A j \in Jobs :
             (req[r].op = "start" /\ req[r].job = j /\ req[r].pc = "selectMappings"
                /\ req'[r] # req[r] /\ ~crashed')
                 => ((dbMappings[j] = 0) <=> (req'[r].err = ErrNoMappings))]_vars

\* the last mapping of a job was deleted while the job is 'running' with its
\* live process tracked
C33_Witness ==
    \E j \in Jobs :
        /\ dbMappings[j] = 0
        /\ dbStatus[j] = "running" /\ has(j)
        /\ procs[activeStreams[j]].st = "live"

\* a stopOutputStream call of a shutdown has not had the answer of its UPDATE
StopPending == \E r \in Reqs : req[r].op = "shutdown" /\ req[r].ids # {}

\* C40: after a signal the pool is closed only when every stop of the shutdown
\* has had its status update answered, and the process ends only by the
\* process.exit(0) that follows the end of the pool, also when a stop fails.
C40_OrderlyShutdown ==
    /\ server.db # "open" => ~StopPending
    /\ server.exit # NoExit
          => server.exit = 0 /\ server.db = "closed" /\ ~StopPending
====
